---------------------------- MODULE Spec2Model ----------------------------
(***************************************************************************)
(* A model of thirtyfour's capability container, W3C dialect normalizer,   *)
(* proxy serialization (common/capabilities/desiredcapabilities.rs) and    *)
(* asynchronous transport client (http/surf_async.rs).                     *)
(*                                                                         *)
(* JSON object keys and Rust identifiers are tuples of one-character       *)
(* strings, so that k.contains(':') and serde's rename rules are computed  *)
(* on the characters.  A serde_json::Value is a record of one shape:       *)
(*   t : "null" | "num" | "str" | "arr" | "obj"                            *)
(*   s : the scalar's text (its characters), m : the object's map,         *)
(*   a : the array's items.                                                *)
(***************************************************************************)
EXTENDS Integers, Sequences, FiniteSets, TLC

VARIABLES
    capabilities,   \* DesiredCapabilities.capabilities, the document
    before,         \* the document as it was when the last call started
    call,           \* the last call on the container and its arguments
    ret,            \* what the last call returned: "Ok", an error kind or "panic"
    envelope,       \* the value make_w3c_caps returned, NoValue before it ran
    ncalls,         \* how many calls the caller of the setters has made
    client,         \* SurfDriverAsync.client, the HTTP client handle
    nbuilt,         \* how many handles setup_client has built
    tasks           \* the callers of execute: each one's future and its result

capsVars == <<capabilities, before, call, ret, envelope, ncalls>>
transportVars == <<client, nbuilt, tasks>>

vars == <<capsVars, transportVars>>

----------------------------------------------------------------------------
(* String literals of the source *)

k_acceptInsecureCerts == <<"a", "c", "c", "e", "p", "t", "I", "n", "s", "e", "c", "u", "r", "e", "C", "e", "r", "t", "s">>
k_browserName == <<"b", "r", "o", "w", "s", "e", "r", "N", "a", "m", "e">>
k_browserVersion == <<"b", "r", "o", "w", "s", "e", "r", "V", "e", "r", "s", "i", "o", "n">>
k_platformName == <<"p", "l", "a", "t", "f", "o", "r", "m", "N", "a", "m", "e">>
k_pageLoadStrategy == <<"p", "a", "g", "e", "L", "o", "a", "d", "S", "t", "r", "a", "t", "e", "g", "y">>
k_proxy == <<"p", "r", "o", "x", "y">>
k_setWindowRect == <<"s", "e", "t", "W", "i", "n", "d", "o", "w", "R", "e", "c", "t">>
k_timeouts == <<"t", "i", "m", "e", "o", "u", "t", "s">>
k_unhandledPromptBehavior == <<"u", "n", "h", "a", "n", "d", "l", "e", "d", "P", "r", "o", "m", "p", "t", "B", "e", "h", "a", "v", "i", "o", "r">>
k_strictFileInteractability == <<"s", "t", "r", "i", "c", "t", "F", "i", "l", "e", "I", "n", "t", "e", "r", "a", "c", "t", "a", "b", "i", "l", "i", "t", "y">>
k_acceptSslCerts == <<"a", "c", "c", "e", "p", "t", "S", "s", "l", "C", "e", "r", "t", "s">>
k_version == <<"v", "e", "r", "s", "i", "o", "n">>
k_platform == <<"p", "l", "a", "t", "f", "o", "r", "m">>
k_firstMatch == <<"f", "i", "r", "s", "t", "M", "a", "t", "c", "h">>
k_alwaysMatch == <<"a", "l", "w", "a", "y", "s", "M", "a", "t", "c", "h">>

(* Keys callers use: a vendor key, a key of no table, nested keys *)
k_moz_firefoxOptions == <<"m", "o", "z", ":", "f", "i", "r", "e", "f", "o", "x", "O", "p", "t", "i", "o", "n", "s">>
k_goog_chromeOptions == <<"g", "o", "o", "g", ":", "c", "h", "r", "o", "m", "e", "O", "p", "t", "i", "o", "n", "s">>
k_unknownThing == <<"u", "n", "k", "n", "o", "w", "n", "T", "h", "i", "n", "g">>
k_implicit == <<"i", "m", "p", "l", "i", "c", "i", "t">>
k_pageLoad == <<"p", "a", "g", "e", "L", "o", "a", "d">>
k_args == <<"a", "r", "g", "s">>
k_binary == <<"b", "i", "n", "a", "r", "y">>
NoKey == <<>>

(* Scalar texts callers use *)
s_99 == <<"9", "9">>
s_LINUX == <<"L", "I", "N", "U", "X">>
s_chrome == <<"c", "h", "r", "o", "m", "e">>
s_0 == <<"0">>
s_300000 == <<"3", "0", "0", "0", "0", "0">>
s_host == <<"h", "o", "s", "t", ":", "8", "0", "8", "0">>
s_pac_url == <<"h", "t", "t", "p", ":", "/", "/", "p", "a", "c">>
s_x == <<"x">>

----------------------------------------------------------------------------
(* serde_json::Value *)

EmptyMap == <<>>
Null == [t |-> "null", s |-> <<>>, m |-> EmptyMap, a |-> <<>>]
Num(n) == [t |-> "num", s |-> n, m |-> EmptyMap, a |-> <<>>]
Str(x) == [t |-> "str", s |-> x, m |-> EmptyMap, a |-> <<>>]
Arr(items) == [t |-> "arr", s |-> <<>>, m |-> EmptyMap, a |-> items]
Obj(map) == [t |-> "obj", s |-> <<>>, m |-> map, a |-> <<>>]

(* What a call leaves in place of a value when it panics, and the value of a
   variable nothing was stored in yet. *)
Panicked == [t |-> "panic", s |-> <<>>, m |-> EmptyMap, a |-> <<>>]
NoValue == [t |-> "none", s |-> <<>>, m |-> EmptyMap, a |-> <<>>]

is_null(v) == v.t = "null"
is_object(v) == v.t = "obj"

(* Map::insert *)
insert(map, k, v) == [x \in DOMAIN map \cup {k} |-> IF x = k THEN v ELSE map[x]]

(* value[key] read (Index<&str>): Null when value is no object or has no such key *)
index(v, key) ==
    IF is_object(v) /\ key \in DOMAIN v.m THEN v.m[key] ELSE Null

(* value[key] = x (IndexMut<&str>): a Null value becomes an object first; an
   object gets the entry; any other value panics. *)
index_set(v, key, x) ==
    IF is_null(v) THEN Obj(insert(EmptyMap, key, x))
    ELSE IF is_object(v) THEN Obj(insert(v.m, key, x))
    ELSE Panicked

(* str::contains(char) *)
contains(k, c) == \E i \in DOMAIN k : k[i] = c

(* The orders Map::iter can visit a map's keys in (key order, or insertion
   order under serde_json's preserve_order feature: any order of the keys). *)
IterOrders(map) ==
    LET n == Cardinality(DOMAIN map)
    IN {o \in [1..n -> DOMAIN map] : \A i, j \in 1..n : i # j => o[i] # o[j]}

----------------------------------------------------------------------------
(* make_w3c_caps *)

W3C_CAPABILITY_NAMES == <<
    k_acceptInsecureCerts, k_browserName, k_browserVersion, k_platformName,
    k_pageLoadStrategy, k_proxy, k_setWindowRect, k_timeouts,
    k_unhandledPromptBehavior, k_strictFileInteractability>>

OSS_W3C_CONVERSION == <<
    <<k_acceptSslCerts, k_acceptInsecureCerts>>,
    <<k_version, k_browserVersion>>,
    <<k_platform, k_platformName>>>>

(* slice::contains *)
slice_contains(slice, x) == \E i \in DOMAIN slice : slice[i] = x

RECURSIVE convert(_, _, _, _)
(* convert storing the value under the legacy key, not its standard name *)
convert_keeps_legacy(always_match, k, v, i) ==
    IF i > Len(OSS_W3C_CONVERSION) THEN always_match
    ELSE LET k_from == OSS_W3C_CONVERSION[i][1]
         IN convert(IF k_from = k THEN index_set(always_match, k_from, v) ELSE always_match,
                    k, v, i + 1)

(* for (k_from, k_to) in OSS_W3C_CONVERSION { if k_from == k { always_match[k_to] = v } },
   from the i-th pair on *)
convert(always_match, k, v, i) ==
    IF i > Len(OSS_W3C_CONVERSION) THEN always_match
    ELSE LET k_from == OSS_W3C_CONVERSION[i][1]
             k_to == OSS_W3C_CONVERSION[i][2]
         IN convert(IF k_from = k THEN index_set(always_match, k_to, v) ELSE always_match,
                    k, v, i + 1)

(* The body of the loop over caps_map for one (k, v) *)
visit_entry(always_match, k, v) ==
    LET converted == IF ~is_null(v) THEN convert(always_match, k, v, 1) ELSE always_match
    IN IF slice_contains(W3C_CAPABILITY_NAMES, k) \/ contains(k, ":")
       THEN index_set(converted, k, v)
       ELSE converted

RECURSIVE visit_all(_, _, _, _)
(* for (k, v) in caps_map.iter(), in the order given, from its i-th key on *)
visit_all(always_match, caps_map, order, i) ==
    IF i > Len(order) THEN always_match
    ELSE visit_all(visit_entry(always_match, order[i], caps_map[order[i]]),
                   caps_map, order, i + 1)

(* make_w3c_caps handing an input that is no object through as alwaysMatch *)
make_w3c_caps_passes_through(caps, order) ==
    LET always_match == IF is_object(caps)
                        THEN visit_all(Obj(EmptyMap), caps.m, order, 1)
                        ELSE caps
    IN Obj(insert(insert(EmptyMap, k_firstMatch, Arr(<<Obj(EmptyMap)>>)),
                  k_alwaysMatch, always_match))

(* make_w3c_caps(caps), its loop visiting the keys in the given order *)
make_w3c_caps(caps, order) ==
    LET always_match == IF is_object(caps)
                        THEN visit_all(Obj(EmptyMap), caps.m, order, 1)
                        ELSE Obj(EmptyMap)
    IN Obj(insert(insert(EmptyMap, k_firstMatch, Arr(<<Obj(EmptyMap)>>)),
                  k_alwaysMatch, always_match))

----------------------------------------------------------------------------
(* Proxy and its derived Serialize *)

k_proxyType == <<"p", "r", "o", "x", "y", "T", "y", "p", "e">>
k_Direct == <<"D", "i", "r", "e", "c", "t">>
k_Manual == <<"M", "a", "n", "u", "a", "l">>
k_AutoConfig == <<"A", "u", "t", "o", "C", "o", "n", "f", "i", "g">>
k_AutoDetect == <<"A", "u", "t", "o", "D", "e", "t", "e", "c", "t">>
k_System == <<"S", "y", "s", "t", "e", "m">>
k_ftp_proxy == <<"f", "t", "p", "_", "p", "r", "o", "x", "y">>
k_http_proxy == <<"h", "t", "t", "p", "_", "p", "r", "o", "x", "y">>
k_ssl_proxy == <<"s", "s", "l", "_", "p", "r", "o", "x", "y">>
k_socks_proxy == <<"s", "o", "c", "k", "s", "_", "p", "r", "o", "x", "y">>
k_socks_username == <<"s", "o", "c", "k", "s", "_", "u", "s", "e", "r", "n", "a", "m", "e">>
k_socks_password == <<"s", "o", "c", "k", "s", "_", "p", "a", "s", "s", "w", "o", "r", "d">>
k_no_proxy == <<"n", "o", "_", "p", "r", "o", "x", "y">>
k_url == <<"u", "r", "l">>
k_pac == <<"p", "a", "c">>
k_proxyAutoconfigUrl == <<"p", "r", "o", "x", "y", "A", "u", "t", "o", "c", "o", "n", "f", "i", "g", "U", "r", "l">>

(* The wire names of the Manual sub-fields (what the camelCase rule yields) *)
k_ftpProxy == <<"f", "t", "p", "P", "r", "o", "x", "y">>
k_httpProxy == <<"h", "t", "t", "p", "P", "r", "o", "x", "y">>
k_sslProxy == <<"s", "s", "l", "P", "r", "o", "x", "y">>
k_socksProxy == <<"s", "o", "c", "k", "s", "P", "r", "o", "x", "y">>
k_socksUsername == <<"s", "o", "c", "k", "s", "U", "s", "e", "r", "n", "a", "m", "e">>
k_socksPassword == <<"s", "o", "c", "k", "s", "P", "a", "s", "s", "w", "o", "r", "d">>
k_noProxy == <<"n", "o", "P", "r", "o", "x", "y">>
k_manual == <<"m", "a", "n", "u", "a", "l">>

LowerCase == <<"a", "b", "c", "d", "e", "f", "g", "h", "i", "j", "k", "l", "m",
               "n", "o", "p", "q", "r", "s", "t", "u", "v", "w", "x", "y", "z">>
UpperCase == <<"A", "B", "C", "D", "E", "F", "G", "H", "I", "J", "K", "L", "M",
               "N", "O", "P", "Q", "R", "S", "T", "U", "V", "W", "X", "Y", "Z">>

to_lower(c) ==
    IF \E i \in DOMAIN UpperCase : UpperCase[i] = c
    THEN LowerCase[CHOOSE i \in DOMAIN UpperCase : UpperCase[i] = c]
    ELSE c
to_upper(c) ==
    IF \E i \in DOMAIN LowerCase : LowerCase[i] = c
    THEN UpperCase[CHOOSE i \in DOMAIN LowerCase : LowerCase[i] = c]
    ELSE c

(* serde rename_all = "lowercase" on a variant name *)
rename_lowercase(name) == [i \in DOMAIN name |-> to_lower(name[i])]

RECURSIVE camel_from(_, _, _)
(* the field name from its i-th character on; up: the next letter starts a word *)
camel_from(name, i, up) ==
    IF i > Len(name) THEN <<>>
    ELSE IF name[i] = "_" THEN camel_from(name, i + 1, TRUE)
    ELSE <<IF up THEN to_upper(name[i]) ELSE name[i]>> \o camel_from(name, i + 1, FALSE)

(* serde rename_all = "camelCase" on a snake_case field name *)
rename_camelCase(name) == camel_from(name, 1, FALSE)

(* Option<String> *)
None == [some |-> FALSE, s |-> <<>>]
Some(x) == [some |-> TRUE, s |-> x]

(* enum Proxy: the variant's Rust name and its fields by their Rust names *)
ManualFields == <<k_ftp_proxy, k_http_proxy, k_ssl_proxy, k_socks_proxy,
                  k_socks_username, k_socks_password, k_no_proxy>>
ProxyDirect == [variant |-> k_Direct, fields |-> EmptyMap]
ProxyManual(f) == [variant |-> k_Manual, fields |-> f]
ProxyAutoConfig(u) == [variant |-> k_AutoConfig, fields |-> insert(EmptyMap, k_url, Some(u))]
ProxyAutoDetect == [variant |-> k_AutoDetect, fields |-> EmptyMap]
ProxySystem == [variant |-> k_System, fields |-> EmptyMap]
NoProxy == [variant |-> NoKey, fields |-> EmptyMap]

(* Serialize for Option<String>: no skip_serializing_if is declared, so None
   is serialized (serialize_none), as null *)
serialize_option(o) == IF o.some THEN Str(o.s) ELSE Null

(* The variant's tag: #[serde(rename = "pac")] on AutoConfig, else the enum's
   rename_all = "lowercase" *)
variant_tag(variant) ==
    IF variant = k_AutoConfig THEN k_pac ELSE rename_lowercase(variant)

(* A field's wire name: #[serde(rename = "proxyAutoconfigUrl")] on AutoConfig.url,
   rename_all = "camelCase" on Manual *)
field_name(variant, f) ==
    IF variant = k_AutoConfig /\ f = k_url THEN k_proxyAutoconfigUrl
    ELSE IF variant = k_Manual THEN rename_camelCase(f)
    ELSE f

(* #[derive(Serialize)] #[serde(tag = "proxyType")] for Proxy, into a Value *)
serialize_proxy(p) ==
    LET names == {field_name(p.variant, f) : f \in DOMAIN p.fields}
        src(n) == CHOOSE f \in DOMAIN p.fields : field_name(p.variant, f) = n
    IN Obj([n \in {k_proxyType} \cup names |->
              IF n = k_proxyType THEN Str(variant_tag(p.variant))
              ELSE serialize_option(p.fields[src(n)])])

----------------------------------------------------------------------------
(* trait Capabilities *)

(* A value of a type T: Serialize handed to add / add_subkey: a serde_json
   Value, a Proxy, or a value whose Serialize fails (a map keyed by a
   non-string, say). *)
OfJson(v) == [kind |-> "json", json |-> v, proxy |-> NoProxy]
OfProxy(p) == [kind |-> "proxy", json |-> Null, proxy |-> p]
Unserializable == [kind |-> "unserializable", json |-> Null, proxy |-> NoProxy]

(* serde_json::to_value *)
to_value(x) ==
    IF x.kind = "json" THEN [ok |-> TRUE, v |-> x.json]
    ELSE IF x.kind = "proxy" THEN [ok |-> TRUE, v |-> serialize_proxy(x.proxy)]
    ELSE [ok |-> FALSE, v |-> Null]

(* What a call on the container leaves: the document and the call's result *)
Returned(doc, r) == [doc |-> doc, ret |-> r]

(* Capabilities::add: the value is serialized first (the ? returns its error),
   then stored with IndexMut *)
add(doc, key, value) ==
    LET r == to_value(value)
    IN IF ~r.ok THEN Returned(doc, "SerializationError")
       ELSE IF index_set(doc, key, r.v) = Panicked THEN Returned(doc, "panic")
       ELSE Returned(index_set(doc, key, r.v), "Ok")

(* json!({ subkey: value }): the macro serializes with to_value(&value).unwrap() *)
json_subkey_object(subkey, value) ==
    LET r == to_value(value)
    IN IF r.ok THEN Obj(insert(EmptyMap, subkey, r.v)) ELSE Panicked

(* Capabilities::add_subkey *)
add_subkey(doc, key, subkey, value) ==
    IF is_null(index(doc, key))
    THEN LET o == json_subkey_object(subkey, value)
         IN IF o = Panicked \/ index_set(doc, key, o) = Panicked
            THEN Returned(doc, "panic")
            ELSE Returned(index_set(doc, key, o), "Ok")
    ELSE LET r == to_value(value)
             inner == index_set(index(doc, key), subkey, r.v)
         IN IF ~r.ok THEN Returned(doc, "SerializationError")
            ELSE IF inner = Panicked THEN Returned(doc, "panic")
            ELSE Returned(index_set(doc, key, inner), "Ok")

(* Capabilities::set_proxy *)
set_proxy(doc, proxy) == add(doc, k_proxy, OfProxy(proxy))

RECURSIVE merge(_, _)
RECURSIVE merge_entries(_, _, _, _)

(* merge with the loop passing the whole of a, not a's entry for k *)
merge_flat(a, b) ==
    IF is_object(a) /\ is_object(b)
    THEN LET order == CHOOSE o \in IterOrders(b.m) : TRUE
             step[i \in 0..Len(order)] ==
                 IF i = 0 THEN a ELSE merge(step[i - 1], b.m[order[i]])
         IN step[Len(order)]
    ELSE b

(* merge with every entry of b replacing a's, nested documents included *)
merge_shallow(a, b) ==
    IF is_object(a) /\ is_object(b)
    THEN Obj([k \in DOMAIN a.m \cup DOMAIN b.m |->
                IF k \in DOMAIN b.m THEN b.m[k] ELSE a.m[k]])
    ELSE b

(* for (k, v) in b { merge(a.entry(k).or_insert(Value::Null), v) }, from the
   i-th key of b on; amap is a's map so far *)
merge_entries(amap, bmap, order, i) ==
    IF i > Len(order) THEN amap
    ELSE LET k == order[i]
             entry == IF k \in DOMAIN amap THEN amap[k] ELSE Null
         IN merge_entries(insert(amap, k, merge(entry, bmap[k])), bmap, order, i + 1)

(* merge(a, b): the value a holds afterwards.  b's keys are distinct, so the
   order they are visited in does not change the result; one order is taken. *)
merge(a, b) ==
    IF is_object(a) /\ is_object(b)
    THEN Obj(merge_entries(a.m, b.m, CHOOSE o \in IterOrders(b.m) : TRUE, 1))
    ELSE b

(* Capabilities::update: assert!(value.is_object()) panics on another value *)
update(doc, value) ==
    IF ~is_object(value) THEN Returned(doc, "panic")
    ELSE Returned(merge(doc, value), "Ok")

----------------------------------------------------------------------------
(* SurfDriverAsync *)

MaxTasks == 2
MaxRebuilds == 1
DefaultTimeoutSecs == 120

Tasks == 1..MaxTasks

(* An HTTP client handle: which build it is, and the timeout it was built with *)
NoHandle == [id |-> 0, timeout |-> 0]

(* setup_client(timeout): a handle of its own, the n-th one built *)
setup_client(timeout, n) == [id |-> n, timeout |-> timeout]

(* A response: its status, and its body decoded as JSON (NoValue for a body
   that does not decode) *)
NoResponse == [status |-> 0, json |-> NoValue]
Response(status, json) == [status |-> status, json |-> json]

(* http_types::StatusCode *)
is_success(x) == 200 <= x /\ x <= 299
is_redirection(x) == 300 <= x /\ x <= 399
is_client_error(x) == 400 <= x /\ x <= 499
is_server_error(x) == 500 <= x /\ x <= 599

(* WebDriverResult<serde_json::Value> as execute returns it, or a panic *)
NoResult == [kind |-> "none", status |-> 0, body |-> NoValue, cause |-> ""]
Ok(json) == [kind |-> "Ok", status |-> 0, body |-> json, cause |-> ""]
Panic == [kind |-> "panic", status |-> 0, body |-> NoValue, cause |-> ""]

(* The error the ? operator makes of a surf error: a transport-level error *)
TransportError(cause) ==
    [kind |-> "TransportError", status |-> 0, body |-> NoValue, cause |-> cause]

(* WebDriverError::parse(status, body): the application-level error of the
   status and the body *)
parse(status, body) ==
    [kind |-> "RemoteProtocolError", status |-> status, body |-> body, cause |-> ""]

(* resp.body_json().await *)
body_json(resp) ==
    IF resp.json = NoValue THEN [ok |-> FALSE, v |-> Null] ELSE [ok |-> TRUE, v |-> resp.json]

(* status as u16 *)
as_u16(x) == x % 65536

(* match resp.status() with the error arm propagating a decode failure *)
classify_propagates(resp) ==
    LET x == resp.status
        body == body_json(resp)
    IN IF is_success(x) \/ is_redirection(x)
       THEN IF body.ok THEN Ok(body.v) ELSE TransportError("decode")
       ELSE IF is_client_error(x) \/ is_server_error(x)
       THEN IF body.ok THEN parse(as_u16(x), body.v) ELSE TransportError("decode")
       ELSE Panic

(* match resp.status() { ... } of execute *)
classify(resp) ==
    LET x == resp.status
        body == body_json(resp)
    IN IF is_success(x) \/ is_redirection(x)
       THEN IF body.ok THEN Ok(body.v) ELSE TransportError("decode")
       ELSE IF is_client_error(x) \/ is_server_error(x)
       THEN parse(as_u16(x), IF body.ok THEN body.v ELSE Null)
       ELSE Panic

(* let mut resp = request.await?: the request fails when the network does, or
   when the response takes longer than the timeout of the handle that sends it *)
await_request(handle, network_ok, latency, resp) ==
    IF ~network_ok THEN [ok |-> FALSE, err |-> TransportError("network"), resp |-> NoResponse]
    ELSE IF latency > handle.timeout
    THEN [ok |-> FALSE, err |-> TransportError("timeout"), resp |-> NoResponse]
    ELSE [ok |-> TRUE, err |-> NoResult, resp |-> resp]

(* execute from the await on: what the future resolves to *)
execute_result(handle, network_ok, latency, resp) ==
    LET r == await_request(handle, network_ok, latency, resp)
    IN IF r.ok THEN classify(r.resp) ELSE r.err

IdleTask ==
    [pc |-> "idle", atCall |-> NoHandle, handle |-> NoHandle, network_ok |-> TRUE,
     latency |-> 0, resp |-> NoResponse, result |-> NoResult]

(* a future of execute is alive: it holds its &self borrow *)
Borrowing(t) == tasks[t].pc \in {"called", "awaiting"}

(* set_request_timeout callable through a shared reference, while futures of
   execute are alive *)
ExclusiveBorrowIgnored == TRUE

(* set_request_timeout takes &mut self: it can run only while no future of
   execute, which borrows &self, is alive *)
ExclusiveBorrow == \A t \in Tasks : ~Borrowing(t)

(* create(remote_server_addr) *)
create ==
    /\ client = setup_client(DefaultTimeoutSecs, 1)
    /\ nbuilt = 1
    /\ tasks = [t \in Tasks |-> IdleTask]

(* execute(&self, request_data) is called: the future exists and borrows self *)
Execute(t) ==
    /\ tasks[t].pc = "idle"
    /\ tasks' = [tasks EXCEPT ![t] = [@ EXCEPT !.pc = "called", !.atCall = client]]
    /\ UNCHANGED <<client, nbuilt>>

(* the future is polled: self.client.get/post/delete(&url) makes the request
   on the handle, and the request is awaited *)
Send(t) ==
    /\ tasks[t].pc = "called"
    /\ tasks' = [tasks EXCEPT ![t] = [@ EXCEPT !.pc = "awaiting", !.handle = client]]
    /\ UNCHANGED <<client, nbuilt>>

(* the awaited request ends, and execute returns *)
Respond(t, network_ok, latency, resp) ==
    /\ tasks[t].pc = "awaiting"
    /\ LET r == await_request(tasks[t].handle, network_ok, latency, resp)
       IN tasks' = [tasks EXCEPT ![t] =
                      [@ EXCEPT !.pc = "done",
                                !.network_ok = network_ok,
                                !.latency = latency,
                                !.resp = r.resp,
                                !.result = execute_result(tasks[t].handle, network_ok,
                                                          latency, resp)]]
    /\ UNCHANGED <<client, nbuilt>>

(* set_request_timeout(&mut self, timeout) *)
SetRequestTimeout(timeout) ==
    /\ ExclusiveBorrow
    /\ nbuilt <= MaxRebuilds
    /\ client' = setup_client(timeout, nbuilt + 1)
    /\ nbuilt' = nbuilt + 1
    /\ UNCHANGED tasks

Statuses == {101, 200, 302, 404, 500}
Bodies == {NoValue, Obj(EmptyMap)}
Latencies == {60, 200}
TimeoutChoices == {30, 300}

NextTransport ==
    \/ \E t \in Tasks : Execute(t) /\ UNCHANGED capsVars
    \/ \E t \in Tasks : Send(t) /\ UNCHANGED capsVars
    \/ \E t \in Tasks, status \in Statuses, json \in Bodies, latency \in Latencies :
          Respond(t, TRUE, latency, Response(status, json)) /\ UNCHANGED capsVars
    \/ \E t \in Tasks, latency \in Latencies :
          Respond(t, FALSE, latency, NoResponse) /\ UNCHANGED capsVars
    \/ \E timeout \in TimeoutChoices : SetRequestTimeout(timeout) /\ UNCHANGED capsVars

----------------------------------------------------------------------------
(* The container as a state machine: a document, built by calls, then
   normalized once for the session request. *)

NoCall == [op |-> "none", key |-> NoKey, subkey |-> NoKey, value |-> OfJson(Null)]
Called(op, key, subkey, value) == [op |-> op, key |-> key, subkey |-> subkey, value |-> value]

(* A call is possible while no earlier call panicked and the document has not
   been handed to make_w3c_caps yet. *)
Building == ret # "panic" /\ envelope = NoValue

Keys(doc) == IF is_object(doc) THEN DOMAIN doc.m ELSE {}

Finish(op, key, subkey, value, r) ==
    /\ before' = capabilities
    /\ call' = Called(op, key, subkey, value)
    /\ capabilities' = r.doc
    /\ ret' = r.ret
    /\ UNCHANGED <<envelope, transportVars>>

Add(key, value) ==
    /\ Building
    /\ Finish("add", key, NoKey, value, add(capabilities, key, value))

AddSubkey(key, subkey, value) ==
    /\ Building
    /\ Finish("add_subkey", key, subkey, value, add_subkey(capabilities, key, subkey, value))

SetProxy(proxy) ==
    /\ Building
    /\ Finish("set_proxy", k_proxy, NoKey, OfProxy(proxy), set_proxy(capabilities, proxy))

Update(value) ==
    /\ Building
    /\ Finish("update", NoKey, NoKey, OfJson(value), update(capabilities, value))

(* make_w3c_caps(&capabilities): the document is borrowed immutably *)
MakeW3cCaps ==
    /\ Building
    /\ \E order \in IterOrders(IF is_object(capabilities) THEN capabilities.m ELSE EmptyMap) :
          envelope' = make_w3c_caps(capabilities, order)
    /\ before' = capabilities
    /\ call' = Called("make_w3c_caps", NoKey, NoKey, OfJson(capabilities))
    /\ ret' = "Ok"
    /\ UNCHANGED <<capabilities, transportVars>>

(* DesiredCapabilities::new(capabilities) *)
new(docs) ==
    /\ capabilities \in docs
    /\ before = capabilities
    /\ call = NoCall
    /\ ret = "Ok"
    /\ envelope = NoValue
    /\ ncalls = 0
    /\ create

----------------------------------------------------------------------------
(* The normalizer: documents of up to MaxKeys entries *)

MaxKeys == 2

(* The keys callers add: every legacy key and its standard counterpart, more
   keys of the allowlist, a vendor key and a key of no table *)
NormKeys ==
    {OSS_W3C_CONVERSION[i][1] : i \in DOMAIN OSS_W3C_CONVERSION}
    \cup {OSS_W3C_CONVERSION[i][2] : i \in DOMAIN OSS_W3C_CONVERSION}
    \cup {k_browserName, k_pageLoadStrategy, k_proxy, k_timeouts}
    \cup {k_moz_firefoxOptions, k_unknownThing}

NormValues == {Null, Str(s_99), Str(s_LINUX), Obj(insert(EmptyMap, k_args, Arr(<<>>)))}

InitNormalizer == new({Null, Obj(EmptyMap), Str(s_chrome)})

NextNormalizer ==
    \/ \E key \in NormKeys, v \in NormValues :
          /\ Cardinality(Keys(capabilities) \cup {key}) <= MaxKeys
          /\ Add(key, OfJson(v))
          /\ UNCHANGED ncalls
    \/ MakeW3cCaps /\ UNCHANGED ncalls

SpecNormalizer == InitNormalizer /\ [][NextNormalizer]_vars

----------------------------------------------------------------------------
(* The container's setters *)

Proxies ==
    {ProxyManual(f) : f \in [{ManualFields[i] : i \in DOMAIN ManualFields} -> {None, Some(s_host)}]}
    \cup {ProxyDirect, ProxyAutoConfig(s_pac_url), ProxyAutoDetect, ProxySystem}

SetterValues == {OfJson(Str(s_x)), OfJson(Null), Unserializable}

InitContainer == new({Null, Obj(EmptyMap)})

MaxCalls == 2

(* The caller makes up to MaxCalls calls *)
Counted == ncalls < MaxCalls /\ ncalls' = ncalls + 1

NextContainer ==
    \/ \E p \in Proxies : Counted /\ SetProxy(p)
    \/ \E v \in SetterValues : Counted /\ Add(k_goog_chromeOptions, v)
    \/ \E subkey \in {k_args, k_binary}, v \in SetterValues :
          Counted /\ AddSubkey(k_goog_chromeOptions, subkey, v)

SpecContainer == InitContainer /\ [][NextContainer]_vars

----------------------------------------------------------------------------
(* update: documents nested one level *)

Scalars == {Num(s_0), Num(s_300000)}
NestedKeys == {k_implicit, k_pageLoad}
TopKeys == {k_timeouts, k_proxy}

MaxEntries == 2

MapsOver(keys, values) == UNION {[d -> values] : d \in SUBSET keys}

(* The number of entries of a document, nested ones included *)
Entries(v) ==
    IF ~is_object(v) THEN 0
    ELSE LET ks == DOMAIN v.m
             sub[S \in SUBSET ks] ==
                 IF S = {} THEN 0
                 ELSE LET k == CHOOSE x \in S : TRUE
                      IN 1 + Cardinality(Keys(v.m[k])) + sub[S \ {k}]
         IN sub[ks]

NestedDocs == {Obj(map) : map \in MapsOver(NestedKeys, Scalars)}
MergeDocs ==
    {d \in {Obj(map) : map \in MapsOver(TopKeys, {Null} \cup Scalars \cup NestedDocs)} :
        Entries(d) <= MaxEntries}

InitMerge == new(MergeDocs \cup {Null, Num(s_0)})

NextMerge ==
    \E value \in MergeDocs \cup {Null} : Update(value) /\ UNCHANGED ncalls

SpecMerge == InitMerge /\ [][NextMerge]_vars

----------------------------------------------------------------------------
(* Properties of make_w3c_caps *)

Normalized == call.op = "make_w3c_caps"
AlwaysMatch == envelope.m[k_alwaysMatch]
LegacyKeys == {OSS_W3C_CONVERSION[i][1] : i \in DOMAIN OSS_W3C_CONVERSION}
StandardOf(k) == OSS_W3C_CONVERSION[CHOOSE i \in DOMAIN OSS_W3C_CONVERSION :
                                       OSS_W3C_CONVERSION[i][1] = k][2]
Allowlist == {W3C_CAPABILITY_NAMES[i] : i \in DOMAIN W3C_CAPABILITY_NAMES}
PassesThrough(k) == k \in Allowlist \/ contains(k, ":")

(* C1: null filtering.  After make_w3c_caps, for every key k of the input
   whose value is null, alwaysMatch holds no key k, and no key derived from k
   (unless the input holds that standard key itself). *)
C1_NullFiltering ==
    (Normalized /\ is_object(capabilities)) =>
        \A k \in DOMAIN capabilities.m :
            is_null(capabilities.m[k]) =>
                /\ k \notin DOMAIN AlwaysMatch.m
                /\ (k \in LegacyKeys /\ StandardOf(k) \notin DOMAIN capabilities.m)
                       => StandardOf(k) \notin DOMAIN AlwaysMatch.m

(* make_w3c_caps ran on a document with no null value that holds no legacy
   key together with its standard counterpart *)
C3_Applies ==
    /\ Normalized /\ is_object(capabilities)
    /\ \A k \in DOMAIN capabilities.m : ~is_null(capabilities.m[k])
    /\ \A k \in DOMAIN capabilities.m \cap LegacyKeys :
           StandardOf(k) \notin DOMAIN capabilities.m

(* the mapping the conversion table and the allowlist give for the map m *)
C3_Expected(m) ==
    LET legacy == DOMAIN m \cap LegacyKeys
        kept == {k \in DOMAIN m : PassesThrough(k)}
    IN [x \in {StandardOf(k) : k \in legacy} \cup kept |->
          IF x \in kept THEN m[x]
          ELSE m[CHOOSE k \in legacy : StandardOf(k) = x]]

(* C3: conversion, passthrough and filtering.  For an input with no null
   value that holds no legacy key together with its standard counterpart,
   alwaysMatch is exactly: each legacy key's value under its standard name,
   and each allowlisted or colon-holding key's value under its own name. *)
C3_DialectConversion ==
    C3_Applies => AlwaysMatch = Obj(C3_Expected(capabilities.m))

(* {"version": "99", "platformName": "LINUX"} was normalized to
   {"browserVersion": "99", "platformName": "LINUX"} *)
C3_Witness ==
    /\ C3_Applies
    /\ capabilities = Obj(insert(insert(EmptyMap, k_version, Str(s_99)),
                                 k_platformName, Str(s_LINUX)))
    /\ AlwaysMatch = Obj(insert(insert(EmptyMap, k_browserVersion, Str(s_99)),
                                k_platformName, Str(s_LINUX)))

(* C10: envelope shape.  For every input, a mapping or not, the result is an
   object of exactly firstMatch and alwaysMatch, firstMatch being [{}] and
   alwaysMatch a mapping, and the input is as it was before the call. *)
C10_EnvelopeShape ==
    Normalized =>
        /\ is_object(envelope)
        /\ DOMAIN envelope.m = {k_firstMatch, k_alwaysMatch}
        /\ envelope.m[k_firstMatch] = Arr(<<Obj(EmptyMap)>>)
        /\ is_object(AlwaysMatch)
        /\ capabilities = before

(* an input that is no mapping was normalized *)
C10_Witness ==
    /\ Normalized
    /\ capabilities = Str(s_chrome)
    /\ AlwaysMatch = Obj(EmptyMap)

----------------------------------------------------------------------------
(* Properties of update *)

Updated == call.op = "update" /\ ret = "Ok"
Incoming == call.value.json

RECURSIVE DeepMerged(_, _, _)
(* R is A with the mapping B merged in, at every nesting level *)
DeepMerged(A, B, R) ==
    IF is_object(A) /\ is_object(B)
    THEN /\ is_object(R)
         /\ DOMAIN R.m = DOMAIN A.m \cup DOMAIN B.m
         /\ \A k \in DOMAIN R.m :
               IF k \notin DOMAIN B.m THEN R.m[k] = A.m[k]
               ELSE IF k \in DOMAIN A.m /\ is_object(A.m[k]) /\ is_object(B.m[k])
                    THEN DeepMerged(A.m[k], B.m[k], R.m[k])
                    ELSE R.m[k] = B.m[k]
    ELSE R = B

(* C5: deep merge.  After update(B) on a document A, at every nesting level
   a key only in A keeps A's value, a key of B whose values on both sides are
   mappings holds the merge of the two, and every other key of B holds B's
   value. *)
C5_DeepMerge == Updated => DeepMerged(before, Incoming, capabilities)

TimeoutsDoc(map) == Obj(insert(EmptyMap, k_timeouts, Obj(map)))

(* {"timeouts": {"implicit": 0}} was merged into {"timeouts": {"pageLoad": 300000}} *)
C5_Witness ==
    /\ Updated
    /\ before = TimeoutsDoc(insert(EmptyMap, k_pageLoad, Num(s_300000)))
    /\ Incoming = TimeoutsDoc(insert(EmptyMap, k_implicit, Num(s_0)))
    /\ capabilities = TimeoutsDoc(insert(insert(EmptyMap, k_pageLoad, Num(s_300000)),
                                      k_implicit, Num(s_0)))

(* C6: merge idempotence.  A step that applies the update just applied once
   more, and a step that applies update(A) to the document A itself, leave
   the document as it is. *)
C6_MergeIdempotent ==
    [][/\ (Updated /\ call' = call /\ ret' = "Ok") => capabilities' = capabilities
       /\ (call'.op = "update" /\ ret' = "Ok" /\ call'.value.json = capabilities)
              => capabilities' = capabilities]_vars

(* a document with a nested mapping was merged into itself *)
C6_Witness ==
    /\ Updated
    /\ Incoming = before
    /\ capabilities = before
    /\ \E k \in Keys(capabilities) : Keys(capabilities.m[k]) # {}

----------------------------------------------------------------------------
(* Properties of the setters *)

ManualWireNames == <<k_ftpProxy, k_httpProxy, k_sslProxy, k_socksProxy,
                     k_socksUsername, k_socksPassword, k_noProxy>>

(* C7: proxy serialization.  After set_proxy of a Manual proxy, the proxy
   entry holds proxyType = "manual" and holds each camelCase sub-field
   exactly when that sub-field is set; an unset sub-field is omitted. *)
C7_ManualProxySerialization ==
    (call.op = "set_proxy" /\ ret = "Ok" /\ call.value.proxy.variant = k_Manual) =>
        LET o == index(capabilities, k_proxy)
        IN /\ is_object(o)
           /\ index(o, k_proxyType) = Str(k_manual)
           /\ \A i \in DOMAIN ManualFields :
                 ManualWireNames[i] \in DOMAIN o.m
                     <=> call.value.proxy.fields[ManualFields[i]].some

(* C9: failure mode of add_subkey.  add_subkey with a value that cannot be
   serialized returns a SerializationError, whether the key was absent or
   null or already held a nested document. *)
C9_AddSubkeyFailure ==
    (call.op = "add_subkey" /\ call.value = Unserializable) => ret = "SerializationError"

----------------------------------------------------------------------------
(* The transport client alone *)

InitTransport == new({Null})

SpecTransport == InitTransport /\ [][NextTransport]_vars

----------------------------------------------------------------------------
(* Properties of the transport client *)

Answered(t) == tasks[t].pc = "done" /\ tasks[t].resp # NoResponse

(* C2: response classification.  A success or redirection status with a body
   that decodes returns the decoded body; a client-error or server-error
   status returns the application-level error of that status and the decoded
   body, or a null body when it does not decode; a decode failure is returned
   only for a success or redirection status. *)
C2_ResponseClassification ==
    \A t \in Tasks : Answered(t) =>
        LET x == tasks[t].resp.status
            json == tasks[t].resp.json
            result == tasks[t].result
        IN /\ ((is_success(x) \/ is_redirection(x)) /\ json # NoValue)
                  => (result.kind = "Ok" /\ result.body = json)
           /\ (is_client_error(x) \/ is_server_error(x))
                  => /\ result.kind = "RemoteProtocolError"
                     /\ result.status = x
                     /\ result.body = IF json = NoValue THEN Null ELSE json
           /\ (result.kind = "TransportError" /\ result.cause = "decode")
                  => (is_success(x) \/ is_redirection(x))

(* a 500 whose body does not decode was answered with the error of status 500
   and a null body *)
C2_Witness ==
    \E t \in Tasks :
        /\ Answered(t)
        /\ tasks[t].resp = Response(500, NoValue)
        /\ tasks[t].result.kind = "RemoteProtocolError"
        /\ tasks[t].result.status = 500
        /\ tasks[t].result.body = Null

(* C8: unexpected status class.  A response whose status is in none of the
   success, redirection, client-error and server-error ranges makes execute
   return a TransportError to its caller. *)
C8_UnexpectedStatusReturnsError ==
    \A t \in Tasks :
        (/\ Answered(t)
         /\ ~is_success(tasks[t].resp.status) /\ ~is_redirection(tasks[t].resp.status)
         /\ ~is_client_error(tasks[t].resp.status) /\ ~is_server_error(tasks[t].resp.status))
            => tasks[t].result.kind = "TransportError"

(* C4: timeout rebuild isolation.  A request uses the handle that was the
   client's when execute was called, a handle setup_client built in full, and
   its outcome is the one that handle's timeout gives, whatever
   set_request_timeout did to the client since. *)
C4_TimeoutRebuildIsolation ==
    \A t \in Tasks :
        /\ tasks[t].pc \in {"awaiting", "done"} =>
               /\ tasks[t].handle = tasks[t].atCall
               /\ tasks[t].handle.id \in 1..nbuilt
        /\ tasks[t].pc = "done" =>
               tasks[t].result = execute_result(tasks[t].atCall, tasks[t].network_ok,
                                                tasks[t].latency, tasks[t].resp)

(* a request timed out under the handle it was sent on, the timeout was then
   raised above its latency, and a later request is on the new handle *)
C4_Witness ==
    \E t, u \in Tasks :
        /\ tasks[t].pc = "done"
        /\ tasks[t].handle.id # client.id
        /\ tasks[t].latency > tasks[t].handle.timeout
        /\ tasks[t].latency <= client.timeout
        /\ tasks[t].result = TransportError("timeout")
        /\ tasks[u].pc = "awaiting"
        /\ tasks[u].handle = client

============================================================================
